---- MODULE Spec2Model ----
(***************************************************************************)
(* Model of the file based Ogg-Vorbis encoder of src/src/encoder.rs:       *)
(* OggVorbisEncoder (lifecycle facade), VorbisState (perceptual encoder    *)
(* wrapper) and OggState (container framer wrapper).  The libvorbis and    *)
(* libogg routines the wrappers call are modelled at the level of blocks,  *)
(* packets and pages, each at the line of encoder.rs that calls it.        *)
(***************************************************************************)
EXTENDS Integers, Sequences, FiniteSets, TLC

\* ------------------------------------------------------------------ bounds
\* API calls made on one encoder (teardown included).
MaxOps == 4
\* Longest interleaved sample batch handed to write_samples.
MaxLen == 3
\* Frames per analysis block of the codec (libvorbis: blocksizes[]).
BlockSize == 2
\* libogg page-out heuristic: bytes accumulated before a page is due (nfill).
NFill == 150
\* libogg page-out heuristic: whole packets on a page before it is due.
MinPackets == 2

SampleVals == {-32768, 12345}
Serials    == {7, 9}
CodecRes   == {"vi", "vc", "vd", "vb"}

\* Configurations handed to initialize / initialize_with_vbr:
\* <<channels, sample_rate>>.
Configs == {<<1, 48000>>, <<2, 48000>>, <<0, 48000>>, <<1, 0>>}

Min(a, b) == IF a < b THEN a ELSE b

RECURSIVE SeqsUpTo(_, _)
SeqsUpTo(S, n) ==
    IF n = 0 THEN {<<>>}
    ELSE LET shorter == SeqsUpTo(S, n - 1)
         IN  shorter \cup {Append(s, x) : s \in {t \in shorter : Len(t) = n - 1}, x \in S}

\* Every batch of at most MaxLen samples (for the sample adapter), and one
\* batch of each length (for the lifecycle, which depends on the length only).
Batches == SeqsUpTo(SampleVals, MaxLen)
Ramp(n) == [i \in 1..n |-> IF i % 2 = 1 THEN 12345 ELSE -32768]
RampBatches == {Ramp(n) : n \in 0..MaxLen}

VARIABLES
    state,      \* OggVorbisEncoder.state
    file_size,  \* OggVorbisEncoder.file_size
    file,       \* OggVorbisEncoder.file: the pages handed to the sink, in order
    ogg,        \* OggVorbisEncoder.ogg
    vorbis,     \* OggVorbisEncoder.vorbis
    sinkOk,     \* whether the sink accepts writes
    alive,      \* "live", "dropped" (Drop ran) or "crashed" (fault in the C library)
    last,       \* the last API call: its name, result and what it did
    pushed,     \* every packet handed to ogg_stream_packetin, in order
    closes,     \* close() calls that returned Ok so far
    run,        \* the call in flight, when calls are followed loop by loop
    nops        \* API calls made so far

vars == <<state, file_size, file, ogg, vorbis, sinkOk, alive, last, pushed, closes, run, nops>>

\* ------------------------------------------------------------ sample values
\* An f32 that holds m * 2^e exactly (m odd, or 0 with e = 0).
RECURSIVE F32Norm(_, _)
F32Norm(m, e) ==
    IF m = 0 THEN [m |-> 0, e |-> 0]
    ELSE IF m % 2 = 0 THEN F32Norm(m \div 2, e + 1)
    ELSE [m |-> m, e |-> e]

\* `samples[i] as f32`: every i16 is exactly representable.
I16AsF32(s) == F32Norm(s, 0)

\* `x / 32768.0`: division by 2^15 only lowers the exponent.
F32Div32768(x) == IF x.m = 0 THEN x ELSE [m |-> x.m, e |-> x.e - 15]

Normalize(s) == F32Div32768(I16AsF32(s))

\* ---------------------------------------------------------------- packets
PacketBytes(kind) ==
    CASE kind = "id"      -> 30
      [] kind = "comment" -> 40
      [] kind = "code"    -> 200
      [] kind = "audio"   -> 100
      [] OTHER            -> 0

\* mem::zeroed() ogg_packet
ZeroPacket == [kind |-> "zero", no |-> 0, bytes |-> 0, eos |-> FALSE]

Packet(kind, no, eos) == [kind |-> kind, no |-> no, bytes |-> PacketBytes(kind), eos |-> eos]

Event(e, n) == [e |-> e, n |-> n]

\* ------------------------------------------------------------ VorbisState
NoBlock == [full |-> FALSE, eof |-> FALSE, no |-> 0]

VorbisNew ==
    [ vi |-> "zeroed", vc |-> "zeroed", vd |-> "zeroed", vb |-> "zeroed",
      channels |-> 0,
      pcm |-> 0,              \* frames committed and not yet in a block
      eofflag |-> 0,          \* 0: open, 1: end of input signalled, -1: ended
      sequence |-> 0,         \* number of the next audio packet
      block |-> NoBlock,      \* the block vorbis_analysis_blockout handed out
      queued |-> NoBlock,     \* the block held by the bitrate manager
      bufs |-> <<>>,          \* channel buffers of the last vorbis_analysis_buffer
      committed |-> 0,        \* argument of the last vorbis_analysis_wrote
      eoi |-> 0,              \* times end of input was signalled
      allocs |-> [r \in CodecRes |-> 0],
      frees |-> [r \in CodecRes |-> 0],
      destroyed |-> 0 ]       \* times VorbisState::destroy ran

Alloc(v, r) == [v EXCEPT !.allocs[r] = @ + 1]

\* vorbis_*_clear: frees what the structure holds, then zeroes it.
Clear(v, r) ==
    [v EXCEPT ![r] = "zeroed",
              !.frees[r] = IF v[r] = "zeroed" THEN @ ELSE @ + 1]

\* Whether vorbis_encode_init / vorbis_encode_init_vbr take <<channels, rate>>.
CodecAccepts(cfg) == cfg[1] >= 1 /\ cfg[2] > 0

pre_init(v, channels) ==
    LET a == Alloc([v EXCEPT !.channels = channels, !.vi = "init"], "vi")
    IN  Alloc([a EXCEPT !.vc = "init"], "vc")

\* vorbis_encode_init and vorbis_encode_init_vbr: on rejection they clear vi
\* and return an error code.
encode_init(v, cfg) ==
    IF CodecAccepts(cfg)
    THEN [v |-> [v EXCEPT !.vi = "setup"], ret |-> 0]
    ELSE [v |-> Clear(v, "vi"), ret |-> -1]

\* vorbis_analysis_init fails, leaving vd alone, on an info without setup;
\* vorbis_block_init zeroes vb and allocates only for an analysis state.
post_init(v) ==
    LET d == IF v.vi = "setup"
             THEN Alloc([v EXCEPT !.vd = "ready", !.sequence = 3, !.pcm = 0,
                                  !.eofflag = 0], "vd")
             ELSE v
    IN  IF d.vd = "ready" THEN Alloc([d EXCEPT !.vb = "init"], "vb") ELSE d

\* VorbisState::init and VorbisState::init_vbr: the return value of the
\* libvorbis call is dropped.
VorbisInit(v, cfg) == post_init(encode_init(pre_init(v, cfg[1]), cfg).v)

\* A fault inside libvorbis: the dsp state is all zero (vd.vi and
\* vd.backend_state are null) and the routine dereferences it.
DspFaults(v) == v.vd # "ready"

\* The stereo branch reading the left sample for both channels.
DeinterleaveLeftOnly(samples, channels) ==
    LET len == Len(samples)
    IN  IF channels = 1
        THEN << [i \in 1..len |-> Normalize(samples[i])] >>
        ELSE IF channels = 2
        THEN << [i \in 1..(len \div 2) |-> Normalize(samples[(i - 1) * 2 + 1])],
                [i \in 1..(len \div 2) |-> Normalize(samples[(i - 1) * 2 + 1])] >>
        ELSE [c \in 1..channels |-> <<>>]

Deinterleave(samples, channels) ==
    LET len == Len(samples)
    IN  IF channels = 1
        THEN << [i \in 1..len |-> Normalize(samples[i])] >>
        ELSE IF channels = 2
        THEN << [i \in 1..(len \div 2) |-> Normalize(samples[(i - 1) * 2 + 1])],
                [i \in 1..(len \div 2) |-> Normalize(samples[(i - 1) * 2 + 2])] >>
        ELSE [c \in 1..channels |-> <<>>]

Frames(samples, channels) == Len(samples) \div channels

\* vorbis_analysis_wrote
analysis_wrote(v, vals) ==
    IF vals <= 0
    THEN [v EXCEPT !.eofflag = 1, !.committed = vals, !.eoi = @ + 1]
    ELSE [v EXCEPT !.pcm = @ + vals, !.committed = vals]

\* VorbisState::write_samples (on a dsp state that is ready)
VorbisWriteSamples(v, samples) ==
    analysis_wrote([v EXCEPT !.bufs = Deinterleave(samples, v.channels)],
                   Frames(samples, v.channels))

\* close that never signals the end of input.
VorbisCloseNoSignal(v) == v

\* VorbisState::close
VorbisClose(v) == analysis_wrote(v, 0)

\* destroy that leaves out vorbis_info_clear.
VorbisDestroyLeaky(v) ==
    [Clear(Clear(Clear(v, "vb"), "vd"), "vc") EXCEPT !.destroyed = @ + 1]

VorbisDestroy(v) ==
    [Clear(Clear(Clear(Clear(v, "vb"), "vd"), "vc"), "vi") EXCEPT !.destroyed = @ + 1]

\* vorbis_analysis_blockout
analysis_blockout(v) ==
    IF v.eofflag = -1 THEN [ret |-> 0, v |-> v]
    ELSE IF v.eofflag = 0
    THEN IF v.pcm >= BlockSize
         THEN [ret |-> 1,
               v |-> [v EXCEPT !.pcm = @ - BlockSize,
                               !.block = [full |-> TRUE, eof |-> FALSE, no |-> v.sequence],
                               !.sequence = @ + 1]]
         ELSE [ret |-> 0, v |-> v]
    ELSE IF v.pcm > BlockSize
         THEN [ret |-> 1,
               v |-> [v EXCEPT !.pcm = @ - BlockSize,
                               !.block = [full |-> TRUE, eof |-> FALSE, no |-> v.sequence],
                               !.sequence = @ + 1]]
         ELSE [ret |-> 1,
               v |-> [v EXCEPT !.pcm = 0, !.eofflag = -1,
                               !.block = [full |-> TRUE, eof |-> TRUE, no |-> v.sequence],
                               !.sequence = @ + 1]]

\* vorbis_analysis followed by vorbis_bitrate_addblock
bitrate_addblock(v) == [v EXCEPT !.queued = v.block, !.block = NoBlock]

\* vorbis_bitrate_flushpacket
bitrate_flushpacket(v) ==
    IF v.queued.full
    THEN [ret |-> 1, v |-> [v EXCEPT !.queued = NoBlock],
          op |-> Packet("audio", v.queued.no, v.queued.eof)]
    ELSE [ret |-> 0, v |-> v, op |-> ZeroPacket]

\* --------------------------------------------------------------- OggState
NoPage == [serialno |-> 0, pageno |-> -1, bos |-> FALSE, eos |-> FALSE,
           packets |-> <<>>, header_len |-> 0, body_len |-> 0, stored |-> FALSE]

OggNew ==
    [ os |-> "zeroed",
      serialno |-> 0,
      pageno |-> 0,
      b_o_s |-> FALSE,
      e_o_s |-> FALSE,
      lacing |-> <<>>,        \* packets taken in and not yet on a page
      og |-> NoPage,
      op |-> ZeroPacket,
      allocs |-> 0,
      frees |-> 0,
      destroyed |-> 0 ]       \* times OggState::destroy ran

ogg_stream_init(o, serial_no) ==
    [o EXCEPT !.os = "init", !.serialno = serial_no, !.pageno = 0, !.b_o_s = FALSE,
              !.e_o_s = FALSE, !.lacing = <<>>, !.allocs = @ + 1]

\* ogg_stream_packetin: refused on a stream that was never initialised.
ogg_stream_packetin(o, p) ==
    IF o.os # "init" THEN o
    ELSE [o EXCEPT !.lacing = Append(@, p), !.e_o_s = @ \/ p.eos]

RECURSIVE SumBytes(_)
SumBytes(ps) == IF ps = <<>> THEN 0 ELSE ps[1].bytes + SumBytes(Tail(ps))

\* The segment scan of ogg_stream_flush_i on a stream that has begun: how
\* many packets the page takes and whether the page is due by itself.
RECURSIVE ScanVals(_, _, _, _)
ScanVals(lacing, vals, maxvals, acc) ==
    IF vals >= maxvals THEN [vals |-> vals, force |-> FALSE]
    ELSE IF acc > NFill /\ vals >= MinPackets THEN [vals |-> vals, force |-> TRUE]
    ELSE ScanVals(lacing, vals + 1, maxvals, acc + lacing[vals + 1].bytes)

\* ogg_stream_flush_i: every packet of the model is shorter than 255 bytes
\* and so takes one segment.
flush_i(o, force) ==
    LET maxvals == Min(Len(o.lacing), 255)
        scan    == IF ~o.b_o_s THEN [vals |-> 1, force |-> FALSE]
                   ELSE ScanVals(o.lacing, 0, maxvals, 0)
        vals    == scan.vals
        forced  == force \/ scan.force \/ (o.b_o_s /\ vals = 255)
        page    == [serialno |-> o.serialno, pageno |-> o.pageno,
                    bos |-> ~o.b_o_s,
                    eos |-> o.e_o_s /\ Len(o.lacing) = vals,
                    packets |-> SubSeq(o.lacing, 1, vals),
                    header_len |-> 27 + vals,
                    body_len |-> SumBytes(SubSeq(o.lacing, 1, vals)),
                    stored |-> FALSE]
    IN  IF o.os # "init" \/ maxvals = 0 \/ ~forced
        THEN [ret |-> 0, o |-> o]
        ELSE [ret |-> 1,
              o |-> [o EXCEPT !.lacing = SubSeq(@, vals + 1, Len(@)),
                              !.b_o_s = TRUE, !.pageno = @ + 1, !.og = page]]

ogg_stream_flush(o) == flush_i(o, TRUE)

ogg_stream_pageout(o) ==
    flush_i(o, (o.e_o_s /\ o.lacing # <<>>) \/ (o.lacing # <<>> /\ ~o.b_o_s))

\* The encoder while one call runs: c.v VorbisState, c.o OggState, c.file the
\* sink, c.pushed the packets taken in, c.trace what the call did, c.sink
\* whether the sink takes writes.
Ctx(v, o, f, pu, ok) ==
    [v |-> v, o |-> o, file |-> f, pushed |-> pu, trace |-> <<>>, sink |-> ok]

Log(c, e, n) == [c EXCEPT !.trace = Append(@, Event(e, n))]

\* The page written, header and body, twice over.
SinkWriteTwice(c, page) ==
    Log([c EXCEPT !.file = Append(Append(@, [page EXCEPT !.stored = c.sink]),
                                  [page EXCEPT !.stored = c.sink])],
        "page", page.pageno)

\* file.write_all(header).ok(); file.write_all(body).ok();
SinkWrite(c, page) ==
    Log([c EXCEPT !.file = Append(@, [page EXCEPT !.stored = c.sink])], "page", page.pageno)

PacketIn(c, p) ==
    Log([c EXCEPT !.o = ogg_stream_packetin(c.o, p),
                  !.pushed = IF c.o.os = "init" THEN Append(@, p) ELSE @],
        "packetin", p.no)

\* init that pushes the comment header in place of the codebook header.
OggInitRepeating(c, serial_no) ==
    LET o1  == ogg_stream_init(c.o, serial_no)
        ok  == c.v.vd = "ready"
        h1  == IF ok THEN Packet("id", 0, FALSE) ELSE ZeroPacket
        h2  == IF ok THEN Packet("comment", 1, FALSE) ELSE ZeroPacket
        c1  == Log([c EXCEPT !.o = o1], "headerout", IF ok THEN 0 ELSE -1)
    IN  PacketIn(PacketIn(PacketIn(c1, h1), h2), h2)

\* OggState::init
OggInit(c, serial_no) ==
    LET o1  == ogg_stream_init(c.o, serial_no)
        ok  == c.v.vd = "ready"     \* vorbis_analysis_headerout has a dsp state
        h1  == IF ok THEN Packet("id", 0, FALSE) ELSE ZeroPacket
        h2  == IF ok THEN Packet("comment", 1, FALSE) ELSE ZeroPacket
        h3  == IF ok THEN Packet("code", 2, FALSE) ELSE ZeroPacket
        c1  == Log([c EXCEPT !.o = o1], "headerout", IF ok THEN 0 ELSE -1)
    IN  PacketIn(PacketIn(PacketIn(c1, h1), h2), h3)

\* OggState::write_page
RECURSIVE write_page(_, _)
write_page(c, bytes_written) ==
    LET r == ogg_stream_pageout(c.o)
    IN  IF r.ret = 0 THEN [c |-> c, bytes |-> bytes_written]
        ELSE LET c1 == SinkWrite([c EXCEPT !.o = r.o], r.o.og)
                 n  == bytes_written + r.o.og.header_len + r.o.og.body_len
             IN  IF r.o.og.eos THEN [c |-> c1, bytes |-> n]
                 ELSE write_page(c1, n)

\* write_flush that asks for pages with ogg_stream_pageout.
write_flush_lazy(c, bytes_written) == write_page(c, bytes_written)

\* OggState::write_flush
RECURSIVE write_flush(_, _)
write_flush(c, bytes_written) ==
    LET r == ogg_stream_flush(c.o)
    IN  IF r.ret = 0 THEN [c |-> c, bytes |-> bytes_written]
        ELSE write_flush(SinkWrite([c EXCEPT !.o = r.o], r.o.og),
                         bytes_written + r.o.og.header_len + r.o.og.body_len)

\* The inner loop of OggState::write
RECURSIVE write_packets(_, _)
write_packets(c, bytes_written) ==
    LET f == bitrate_flushpacket(c.v)
        c0 == Log(c, "flushpacket", f.ret)
    IN  IF f.ret = 0 THEN [c |-> c0, bytes |-> bytes_written]
        ELSE LET c1 == PacketIn([c0 EXCEPT !.v = f.v, !.o.op = f.op], f.op)
                 w  == write_page(c1, 0)
             IN  write_packets(w.c, bytes_written + w.bytes)

\* write with `if` for the outer `while`: one block is taken per call.
write_once(c, bytes_written) ==
    LET b  == analysis_blockout(c.v)
        c0 == Log(c, "blockout", b.ret)
    IN  IF b.ret # 1 THEN [c |-> c0, bytes |-> bytes_written]
        ELSE LET c1 == Log(Log([c0 EXCEPT !.v = bitrate_addblock(b.v)], "analysis", 0),
                           "addblock", 0)
                 w  == write_packets(c1, 0)
             IN  [c |-> w.c, bytes |-> bytes_written + w.bytes]

\* OggState::write
RECURSIVE write(_, _)
write(c, bytes_written) ==
    LET b  == analysis_blockout(c.v)
        c0 == Log(c, "blockout", b.ret)
    IN  IF b.ret # 1 THEN [c |-> c0, bytes |-> bytes_written]
        ELSE LET c1 == Log(Log([c0 EXCEPT !.v = bitrate_addblock(b.v)], "analysis", 0),
                           "addblock", 0)
                 w  == write_packets(c1, 0)
             IN  write(w.c, bytes_written + w.bytes)

OggDestroy(o) ==
    [o EXCEPT !.os = "zeroed", !.lacing = <<>>, !.destroyed = @ + 1,
              !.frees = IF o.os = "zeroed" THEN @ ELSE @ + 1]

\* ------------------------------------------------------- OggVorbisEncoder
\* The encoder as one value: e.state, e.file_size and the parts in e.c;
\* e.result is what the call returned, "fault" when the C library faulted.
Enc(st, fs, c) == [state |-> st, file_size |-> fs, c |-> c, result |-> "none"]

Fail(e, msg) == [e EXCEPT !.result = msg]

\* OggVorbisEncoder::initialize
initialize(e, cfg, serial_no) ==
    CASE e.state = "Created" ->
           LET c1 == [e.c EXCEPT !.v = VorbisInit(e.c.v, cfg)]
               w  == write_flush(OggInit(c1, serial_no), 0)
           IN  [e EXCEPT !.c = w.c, !.state = "Initialized", !.result = "Ok"]
      [] e.state = "Initialized" -> Fail(e, "Audio stream already initialized.")
      [] e.state = "Closed" -> Fail(e, "Audio stream already closed.")

\* initialize_with_vbr that initializes an Initialized encoder once more.
initialize_with_vbr_again(e, cfg, serial_no) ==
    CASE e.state \in {"Created", "Initialized"} ->
           LET c1 == [e.c EXCEPT !.v = VorbisInit(e.c.v, cfg)]
               w  == write_flush(OggInit(c1, serial_no), 0)
           IN  [e EXCEPT !.c = w.c, !.file_size = @ + w.bytes,
                         !.state = "Initialized", !.result = "Ok"]
      [] e.state = "Closed" -> Fail(e, "Audio stream already closed.")

\* OggVorbisEncoder::initialize_with_vbr
initialize_with_vbr(e, cfg, serial_no) ==
    CASE e.state = "Created" ->
           LET c1 == [e.c EXCEPT !.v = VorbisInit(e.c.v, cfg)]
               w  == write_flush(OggInit(c1, serial_no), 0)
           IN  [e EXCEPT !.c = w.c, !.file_size = @ + w.bytes,
                         !.state = "Initialized", !.result = "Ok"]
      [] e.state = "Initialized" -> Fail(e, "Audio stream already initialized.")
      [] e.state = "Closed" -> Fail(e, "Audio stream already closed.")

\* write_samples without the check of the lifecycle state.
write_samples_unchecked(e, samples) ==
    IF DspFaults(e.c.v) THEN Fail(e, "fault")
    ELSE LET c1 == Log([e.c EXCEPT !.v = VorbisWriteSamples(e.c.v, samples)],
                       "wrote", Frames(samples, e.c.v.channels))
             w  == write(c1, 0)
         IN  [e EXCEPT !.c = w.c, !.file_size = @ + w.bytes, !.result = "Ok"]

\* OggVorbisEncoder::write_samples
write_samples(e, samples) ==
    CASE e.state = "Created" -> Fail(e, "Audio stream not initialized.")
      [] e.state = "Initialized" ->
           IF DspFaults(e.c.v) THEN Fail(e, "fault")
           ELSE LET c1 == Log([e.c EXCEPT !.v = VorbisWriteSamples(e.c.v, samples)],
                              "wrote", Frames(samples, e.c.v.channels))
                    w  == write(c1, 0)
                IN  [e EXCEPT !.c = w.c, !.file_size = @ + w.bytes, !.result = "Ok"]
      [] e.state = "Closed" -> Fail(e, "Audio stream already closed.")

\* close that takes a Created encoder for an open one and marks it Closed.
close_skipping(e) ==
    CASE e.state = "Created" -> [e EXCEPT !.state = "Closed", !.result = "Ok"]
      [] e.state = "Initialized" ->
           IF DspFaults(e.c.v) THEN Fail(e, "fault")
           ELSE LET c1 == Log([e.c EXCEPT !.v = VorbisClose(e.c.v)], "wrote", 0)
                    w  == write(c1, 0)
                IN  [e EXCEPT !.c = w.c, !.file_size = @ + w.bytes, !.result = "Ok"]
      [] e.state = "Closed" -> Fail(e, "Audio stream already closed.")

\* OggVorbisEncoder::close; `self.state == EncoderState::Closed;` compares
\* and discards, so the state is left as it is.
close(e) ==
    CASE e.state = "Created" -> Fail(e, "Audio stream not initialized.")
      [] e.state = "Initialized" ->
           IF DspFaults(e.c.v) THEN Fail(e, "fault")
           ELSE LET c1 == Log([e.c EXCEPT !.v = VorbisClose(e.c.v)], "wrote", 0)
                    w  == write(c1, 0)
                IN  [e EXCEPT !.c = w.c, !.file_size = @ + w.bytes, !.result = "Ok"]
      [] e.state = "Closed" -> Fail(e, "Audio stream already closed.")

\* OggVorbisEncoder::len
len == file_size

\* Drop for OggVorbisEncoder
drop(e) == [e EXCEPT !.c.o = OggDestroy(e.c.o), !.c.v = VorbisDestroy(e.c.v),
                     !.result = "dropped"]

\* ------------------------------------------------------------ state machine
Self == Enc(state, file_size, Ctx(vorbis, ogg, file, pushed, sinkOk))

\* The encoder after a call `op` that left it as e.
Becomes(op, arg, e) ==
    /\ state' = e.state
    /\ file_size' = e.file_size
    /\ file' = e.c.file
    /\ ogg' = e.c.o
    /\ vorbis' = e.c.v
    /\ pushed' = e.c.pushed
    /\ last' = [op |-> op, arg |-> arg, result |-> e.result, from |-> state,
                trace |-> e.c.trace]
    /\ alive' = IF e.result = "fault" THEN "crashed"
                ELSE IF e.result = "dropped" THEN "dropped" ELSE alive
    /\ closes' = IF op = "close" /\ e.result = "Ok" THEN closes + 1 ELSE closes
    /\ UNCHANGED sinkOk

ApiOps == {"initialize", "initialize_with_vbr", "write_samples", "close"}
InitOps == {"initialize", "initialize_with_vbr"}

\* No call in flight. A call in flight is at loop run.pc with the encoder as
\* it is so far in run.e; run.w is bytes_written of OggState::write and run.p
\* bytes_written of the write_page or write_flush that is running.
Idle == [pc |-> "idle", op |-> "none", arg |-> <<>>, serial |-> 0,
         e |-> Enc("Created", 0, Ctx(VorbisNew, OggNew, <<>>, <<>>, TRUE)),
         w |-> 0, p |-> 0]

Callable == alive = "live" /\ nops < MaxOps /\ run.pc = "idle"

\* OggVorbisEncoder::new
Init ==
    /\ state = "Created"
    /\ file_size = 0
    /\ file = <<>>
    /\ ogg = OggNew
    /\ vorbis = VorbisNew
    /\ sinkOk = TRUE
    /\ alive = "live"
    /\ last = [op |-> "new", arg |-> <<>>, result |-> "Ok", from |-> "Created",
               trace |-> <<>>]
    /\ pushed = <<>>
    /\ closes = 0
    /\ run = Idle
    /\ nops = 0

Initialize ==
    /\ Callable
    /\ \E cfg \in Configs, serial_no \in Serials :
          Becomes("initialize", cfg, initialize(Self, cfg, serial_no))
    /\ nops' = nops + 1
    /\ UNCHANGED run

InitializeWithVbr ==
    /\ Callable
    /\ \E cfg \in Configs, serial_no \in Serials :
          Becomes("initialize_with_vbr", cfg, initialize_with_vbr(Self, cfg, serial_no))
    /\ nops' = nops + 1
    /\ UNCHANGED run

WriteSamples ==
    /\ Callable
    /\ \E samples \in RampBatches : Becomes("write_samples", samples, write_samples(Self, samples))
    /\ nops' = nops + 1
    /\ UNCHANGED run

Close ==
    /\ Callable
    /\ Becomes("close", <<>>, close(Self))
    /\ nops' = nops + 1
    /\ UNCHANGED run

Drop ==
    /\ alive = "live"
    /\ run.pc = "idle"
    /\ Becomes("drop", <<>>, drop(Self))
    /\ UNCHANGED <<nops, run>>

\* The sink stops taking writes (disk full); write_all fails from here on.
SinkFails ==
    /\ alive = "live"
    /\ sinkOk
    /\ sinkOk' = FALSE
    /\ UNCHANGED <<state, file_size, file, ogg, vorbis, alive, last, pushed, closes, run, nops>>

\* write_samples with every batch of at most MaxLen samples.
WriteAnySamples ==
    /\ Callable
    /\ \E samples \in Batches : Becomes("write_samples", samples, write_samples(Self, samples))
    /\ nops' = nops + 1
    /\ UNCHANGED run

NextSamples == InitializeWithVbr \/ WriteAnySamples

SpecSamples == Init /\ [][NextSamples]_vars

Next == Initialize \/ InitializeWithVbr \/ WriteSamples \/ Close \/ Drop \/ SinkFails

Spec == Init /\ [][Next]_vars

\* ------------------------------------------------- a call, loop by loop
\* A call up to its first loop: the match on the lifecycle state, and then
\* the codec and framer set-up (to write_flush) or the submission of the
\* batch or of the end of input (to the block loop of OggState::write).
begin(op, e, arg, serial_no) ==
    LET r == [pc |-> "return", op |-> op, arg |-> arg, serial |-> serial_no,
              e |-> e, w |-> 0, p |-> 0]
    IN  IF e.state = "Closed" THEN [r EXCEPT !.e = Fail(e, "Audio stream already closed.")]
        ELSE IF op \in InitOps
        THEN IF e.state = "Initialized"
             THEN [r EXCEPT !.e = Fail(e, "Audio stream already initialized.")]
             ELSE [r EXCEPT !.pc = "flush",
                            !.e.c = OggInit([e.c EXCEPT !.v = VorbisInit(e.c.v, arg)],
                                            serial_no)]
        ELSE IF e.state = "Created"
             THEN [r EXCEPT !.e = Fail(e, "Audio stream not initialized.")]
             ELSE IF DspFaults(e.c.v) THEN [r EXCEPT !.e = Fail(e, "fault")]
             ELSE IF op = "write_samples"
             THEN [r EXCEPT !.pc = "blockout",
                            !.e.c = Log([e.c EXCEPT !.v = VorbisWriteSamples(e.c.v, arg)],
                                        "wrote", Frames(arg, e.c.v.channels))]
             ELSE [r EXCEPT !.pc = "blockout",
                            !.e.c = Log([e.c EXCEPT !.v = VorbisClose(e.c.v)], "wrote", 0)]

\* One test of `while vorbis_analysis_blockout(..) == 1` in OggState::write
\* and, when it holds, the body down to the packet loop.
blockout_step(r) ==
    LET b  == analysis_blockout(r.e.c.v)
        c0 == Log(r.e.c, "blockout", b.ret)
    IN  IF b.ret # 1 THEN [r EXCEPT !.pc = "return", !.e.c = c0]
        ELSE [r EXCEPT !.pc = "flushpacket",
                       !.e.c = Log(Log([c0 EXCEPT !.v = bitrate_addblock(b.v)],
                                       "analysis", 0), "addblock", 0)]

\* One test of `while vorbis_bitrate_flushpacket(..) != 0` and, when it
\* holds, ogg_stream_packetin and the entry of write_page.
flushpacket_step(r) ==
    LET f  == bitrate_flushpacket(r.e.c.v)
        c0 == Log(r.e.c, "flushpacket", f.ret)
    IN  IF f.ret = 0 THEN [r EXCEPT !.pc = "blockout", !.e.c = c0]
        ELSE [r EXCEPT !.pc = "pageout", !.p = 0,
                       !.e.c = PacketIn([c0 EXCEPT !.v = f.v, !.o.op = f.op], f.op)]

\* An iteration of write_page that goes round again when no page is due.
pageout_step_nobreak(r) ==
    LET g == ogg_stream_pageout(r.e.c.o)
        n == r.p + g.o.og.header_len + g.o.og.body_len
    IN  IF g.ret = 0 THEN r
        ELSE IF g.o.og.eos
        THEN [r EXCEPT !.pc = "flushpacket", !.w = @ + n, !.p = n,
                       !.e.c = SinkWrite([r.e.c EXCEPT !.o = g.o], g.o.og)]
        ELSE [r EXCEPT !.p = n, !.e.c = SinkWrite([r.e.c EXCEPT !.o = g.o], g.o.og)]

\* One iteration of the loop of OggState::write_page; on either break the
\* bytes of this write_page are added to bytes_written of OggState::write.
pageout_step(r) ==
    LET g == ogg_stream_pageout(r.e.c.o)
        n == r.p + g.o.og.header_len + g.o.og.body_len
    IN  IF g.ret = 0 THEN [r EXCEPT !.pc = "flushpacket", !.w = @ + r.p]
        ELSE IF g.o.og.eos
        THEN [r EXCEPT !.pc = "flushpacket", !.w = @ + n, !.p = n,
                       !.e.c = SinkWrite([r.e.c EXCEPT !.o = g.o], g.o.og)]
        ELSE [r EXCEPT !.p = n, !.e.c = SinkWrite([r.e.c EXCEPT !.o = g.o], g.o.og)]

\* One iteration of the loop of OggState::write_flush.
flush_step(r) ==
    LET g == ogg_stream_flush(r.e.c.o)
    IN  IF g.ret = 0 THEN [r EXCEPT !.pc = "return"]
        ELSE [r EXCEPT !.p = @ + g.o.og.header_len + g.o.og.body_len,
                       !.e.c = SinkWrite([r.e.c EXCEPT !.o = g.o], g.o.og)]

\* What the call leaves when its loops are done: the byte counter (not in
\* initialize), the lifecycle state (not in close) and Ok.
return_step(r) ==
    IF r.e.result # "none" THEN r.e
    ELSE CASE r.op = "initialize" ->
                [r.e EXCEPT !.state = "Initialized", !.result = "Ok"]
           [] r.op = "initialize_with_vbr" ->
                [r.e EXCEPT !.file_size = @ + r.p, !.state = "Initialized",
                            !.result = "Ok"]
           [] r.op \in {"write_samples", "close"} ->
                [r.e EXCEPT !.file_size = @ + r.w, !.result = "Ok"]

\* The call in flight as the whole-call operators compute it.
Whole(r) ==
    CASE r.op = "initialize" -> initialize(Self, r.arg, r.serial)
      [] r.op = "initialize_with_vbr" -> initialize_with_vbr(Self, r.arg, r.serial)
      [] r.op = "write_samples" -> write_samples(Self, r.arg)
      [] r.op = "close" -> close(Self)

Quiet == UNCHANGED <<state, file_size, file, ogg, vorbis, sinkOk, alive, last, pushed, closes>>

BeginInitialize ==
    /\ Callable
    /\ \E cfg \in Configs, serial_no \in Serials :
          run' = begin("initialize", Self, cfg, serial_no)
    /\ nops' = nops + 1
    /\ Quiet

BeginInitializeWithVbr ==
    /\ Callable
    /\ \E cfg \in Configs, serial_no \in Serials :
          run' = begin("initialize_with_vbr", Self, cfg, serial_no)
    /\ nops' = nops + 1
    /\ Quiet

BeginWriteSamples ==
    /\ Callable
    /\ \E samples \in RampBatches : run' = begin("write_samples", Self, samples, 0)
    /\ nops' = nops + 1
    /\ Quiet

BeginClose ==
    /\ Callable
    /\ run' = begin("close", Self, <<>>, 0)
    /\ nops' = nops + 1
    /\ Quiet

StepBlockout ==
    /\ run.pc = "blockout"
    /\ run' = blockout_step(run)
    /\ Quiet /\ UNCHANGED nops

StepFlushPacket ==
    /\ run.pc = "flushpacket"
    /\ run' = flushpacket_step(run)
    /\ Quiet /\ UNCHANGED nops

StepPageOut ==
    /\ run.pc = "pageout"
    /\ run' = pageout_step(run)
    /\ Quiet /\ UNCHANGED nops

StepFlush ==
    /\ run.pc = "flush"
    /\ run' = flush_step(run)
    /\ Quiet /\ UNCHANGED nops

Return ==
    /\ run.pc = "return"
    /\ Becomes(run.op, run.arg, return_step(run))
    /\ run' = Idle
    /\ UNCHANGED nops

NextSteps ==
    \/ BeginInitialize \/ BeginInitializeWithVbr \/ BeginWriteSamples \/ BeginClose
    \/ StepBlockout \/ StepFlushPacket \/ StepPageOut \/ StepFlush \/ Return

\* A call runs on the caller's thread with nothing to wait for: the loop it
\* is in takes its next iteration, and a call whose loops are done returns.
FairSteps ==
    /\ WF_vars(StepBlockout) /\ WF_vars(StepFlushPacket) /\ WF_vars(StepPageOut)
    /\ WF_vars(StepFlush) /\ WF_vars(Return)

SpecSteps == Init /\ [][NextSteps]_vars /\ FairSteps

\* ------------------------------------------------------------------ claims
RECURSIVE PageBytes(_)
PageBytes(pages) ==
    IF pages = <<>> THEN 0
    ELSE pages[1].header_len + pages[1].body_len + PageBytes(Tail(pages))

\* C1: once a close() has returned Ok the encoder is Closed, no second close()
\* returns Ok, and every later call returns the "already closed" error.
C1_ClosedIsTerminal ==
    closes >= 1 =>
        /\ state = "Closed"
        /\ closes = 1
        /\ (last.op \in ApiOps /\ ~(last.op = "close" /\ last.result = "Ok"))
              => last.result = "Audio stream already closed."

\* C2: len() is the sum of header_len + body_len over the pages written to
\* the sink so far, the header pages of either initialization included.
C2_LenCountsEveryPage == len = PageBytes(file)

\* C3: write_samples and close on a Created encoder return the "not
\* initialized" error, write nothing to the sink, hand nothing to the codec
\* and leave the state Created and the byte counter 0.
C3_CreatedRejectsWriteAndClose ==
    (last.op \in {"write_samples", "close"} /\ last.from = "Created") =>
        /\ last.result = "Audio stream not initialized."
        /\ last.trace = <<>>
        /\ file = <<>>
        /\ vorbis = VorbisNew
        /\ ogg = OggNew
        /\ state = "Created"
        /\ len = 0

C3_Witness ==
    /\ last.op = "write_samples"
    /\ last.from = "Created"
    /\ Len(last.arg) = 2
    /\ nops = 2

\* C4: the lifecycle state changes only from Created to Initialized, by an
\* initialize or initialize_with_vbr that returns Ok, and from Initialized to
\* Closed, by a close that returns Ok; it never skips, reverses or leaves Closed.
C4_StateMovesForward ==
    [][state' # state =>
          \/ /\ state = "Created" /\ state' = "Initialized"
             /\ last'.op \in InitOps /\ last'.result = "Ok"
          \/ /\ state = "Initialized" /\ state' = "Closed"
             /\ last'.op = "close" /\ last'.result = "Ok"]_vars

C4_Witness ==
    /\ state = "Initialized"
    /\ last.op \in InitOps
    /\ last.from = "Created"
    /\ last.result = "Ok"

\* C5: initialize and initialize_with_vbr return a failure when the codec
\* rejects the configuration.
C5_RejectedConfigFails ==
    (last.op \in InitOps /\ last.from = "Created" /\ ~CodecAccepts(last.arg))
        => last.result # "Ok"

\* C6: when close() has returned Ok the codec has been told the input ended,
\* neither the codec nor the framer holds a packet back and the last page
\* handed to the sink carries the end-of-stream flag.
C6_CloseDrainsAndMarksEnd ==
    (last.op = "close" /\ last.result = "Ok") =>
        /\ vorbis.eoi >= 1
        /\ vorbis.eofflag = -1
        /\ ~vorbis.block.full
        /\ ~vorbis.queued.full
        /\ ogg.lacing = <<>>
        /\ file # <<>>
        /\ file[Len(file)].eos

\* initialize immediately followed by close, no samples in between.
C6_Witness ==
    /\ last.op = "close"
    /\ last.result = "Ok"
    /\ nops = 2
    /\ Len(file) = 3
    /\ file[3].eos

\* C7: an initialize call on an Initialized encoder fails with "already
\* initialized" and changes neither the codec, the framer, the sink nor the
\* byte counter; the channel count and the serial number never change once
\* set, and every page in the sink carries the framer's serial number.
C7_ConfiguredOnce ==
    [][/\ (state = "Initialized" /\ nops' = nops + 1 /\ last'.op \in InitOps)
            => /\ last'.result = "Audio stream already initialized."
               /\ UNCHANGED <<vorbis, ogg, file, file_size, pushed, state>>
       /\ (state # "Created" /\ alive' # "dropped")
            => /\ vorbis'.channels = vorbis.channels
               /\ ogg'.serialno = ogg.serialno
               /\ vorbis'.allocs = vorbis.allocs
               /\ ogg'.allocs = ogg.allocs
       /\ \A i \in 1..Len(file') : file'[i].serialno = ogg'.serialno]_vars

C7_Witness ==
    /\ last.op \in InitOps
    /\ last.from = "Initialized"
    /\ last.arg = <<2, 48000>>
    /\ vorbis.channels = 1
    /\ Len(file) >= 3

PagePackets(i) == file[i].packets

\* C8: the first three packets the framer takes in are the header packets, in
\* order; no page reaches the sink before them; initialize flushes them out,
\* so that it returns with nothing pending in the framer, and no page holds
\* both a header packet and an audio packet.
C8_HeadersFirstAndFlushed ==
    /\ state = "Created" => file = <<>> /\ pushed = <<>>
    /\ state # "Created" =>
         /\ Len(pushed) >= 3
         /\ vorbis.vd = "ready" =>
               /\ <<pushed[1].kind, pushed[2].kind, pushed[3].kind>> = <<"id", "comment", "code">>
               /\ \A i \in 4..Len(pushed) : pushed[i].kind = "audio"
         /\ Len(file) >= 2
         /\ PagePackets(1) = <<pushed[1]>>
         /\ PagePackets(2) = <<pushed[2], pushed[3]>>
         /\ \A i \in 3..Len(file) : \A k \in 1..Len(PagePackets(i)) :
               PagePackets(i)[k].no >= 3
    /\ (last.op \in InitOps /\ last.result = "Ok") =>
         /\ ogg.lacing = <<>>
         /\ Len(last.trace) = 6
         /\ \A k \in 2..4 : last.trace[k].e = "packetin"
         /\ \A k \in 5..6 : last.trace[k].e = "page"

C8_Witness ==
    /\ last.op = "write_samples"
    /\ Len(file) >= 3
    /\ file[3].packets[1].kind = "audio"
    /\ ~file[3].eos

\* C9 as stated: teardown frees every codec resource and the framer exactly
\* once, each of them acquired at construction.
C9_EveryResourceFreedOnce ==
    alive = "dropped" =>
        /\ \A r \in CodecRes : vorbis.allocs[r] = 1 /\ vorbis.frees[r] = 1
        /\ ogg.allocs = 1 /\ ogg.frees = 1

\* C9 amended: teardown runs the codec's and the framer's release once each;
\* nothing is acquired by construction, a resource is acquired at most once,
\* by initialize, and after teardown what was acquired has been freed once
\* and nothing else was freed.
C9_TeardownReleasesWhatWasAcquired ==
    /\ (alive = "live" /\ state = "Created") =>
          /\ \A r \in CodecRes : vorbis.allocs[r] = 0
          /\ ogg.allocs = 0
    /\ alive # "dropped" => vorbis.destroyed = 0 /\ ogg.destroyed = 0
    /\ \A r \in CodecRes : vorbis.frees[r] <= vorbis.allocs[r] /\ vorbis.allocs[r] <= 1
    /\ ogg.frees <= ogg.allocs /\ ogg.allocs <= 1
    /\ alive = "dropped" =>
          /\ vorbis.destroyed = 1 /\ ogg.destroyed = 1
          /\ \A r \in CodecRes : vorbis.frees[r] = vorbis.allocs[r] /\ vorbis[r] = "zeroed"
          /\ ogg.frees = ogg.allocs /\ ogg.os = "zeroed"

C9_Witness ==
    /\ alive = "dropped"
    /\ state = "Initialized"
    /\ closes = 1
    /\ vorbis.frees = [r \in CodecRes |-> 1]
    /\ ogg.frees = 1

RECURSIVE Pow2(_)
Pow2(n) == IF n = 0 THEN 1 ELSE 2 * Pow2(n - 1)

\* 32768 times the value of the f32 x, for x a multiple of 1/32768.
Times32768(x) == x.m * Pow2(x.e + 15)

IsPrefix(s, t) == Len(s) <= Len(t) /\ SubSeq(t, 1, Len(s)) = s

RECURSIVE PacketsOf(_)
PacketsOf(pages) ==
    IF pages = <<>> THEN <<>> ELSE pages[1].packets \o PacketsOf(Tail(pages))

\* C11: the sink only grows, by whole pages (a header of 27 bytes and one
\* segment per packet, then the bytes of the packets), in the order the
\* framer produced them; the page numbers in the sink rise strictly from the
\* first page on and the pages hold the packets in the order they were pushed.
C11_SinkIsPagesInOrder ==
    [][/\ IsPrefix(file, file')
       /\ \A i \in 1..Len(file') :
             /\ file'[i].header_len = 27 + Len(file'[i].packets)
             /\ file'[i].body_len = SumBytes(file'[i].packets)
             /\ file'[i].packets # <<>>
             /\ i > 1 => file'[i].pageno > file'[i - 1].pageno
       /\ file' # <<>> => [file'[Len(file')] EXCEPT !.stored = FALSE] = ogg'.og
       /\ alive' # "dropped" => PacketsOf(file') \o ogg'.lacing = pushed']_vars

\* Header pages, a page put out between two write_samples calls and the
\* pages of close, all in one sink.
C11_Witness ==
    /\ last.op = "close"
    /\ last.result = "Ok"
    /\ Len(file) >= 4
    /\ ~file[3].eos
    /\ file[Len(file)].eos

\* Whether tr, from position i on, is the drain of OggState::write: per block
\* blockout, analysis, addblock, then flushpacket with a packetin and the
\* pages it frees for as long as a packet comes, up to the blockout that
\* finds no block.
RECURSIVE DrainOk(_, _, _)
DrainOk(tr, i, mode) ==
    IF i > Len(tr) THEN FALSE
    ELSE CASE mode = "block" ->
                IF tr[i] = Event("blockout", 1)
                THEN /\ i + 2 <= Len(tr)
                     /\ tr[i + 1].e = "analysis"
                     /\ tr[i + 2].e = "addblock"
                     /\ DrainOk(tr, i + 3, "packet")
                ELSE tr[i].e = "blockout" /\ i = Len(tr)
           [] mode = "packet" ->
                IF tr[i] = Event("flushpacket", 1)
                THEN /\ i + 1 <= Len(tr)
                     /\ tr[i + 1].e = "packetin"
                     /\ DrainOk(tr, i + 2, "page")
                ELSE tr[i] = Event("flushpacket", 0) /\ DrainOk(tr, i + 1, "block")
           [] mode = "page" ->
                IF tr[i].e = "page" THEN DrainOk(tr, i + 1, "page")
                ELSE DrainOk(tr, i, "packet")

CountEvents(tr, ev) == Cardinality({i \in 1..Len(tr) : tr[i] = ev})

\* C12: a write_samples or close that returns Ok has submitted (or signalled
\* the end of input) first and then drained the codec block by block, so that
\* on return no block is available and no packet is left unpulled.
C12_CallDrainsCodec ==
    (last.op \in {"write_samples", "close"} /\ last.result = "Ok") =>
        /\ last.trace # <<>>
        /\ last.trace[1] = Event("wrote", vorbis.committed)
        /\ last.op = "close" => vorbis.committed = 0
        /\ DrainOk(last.trace, 2, "block")
        /\ analysis_blockout(vorbis).ret = 0
        /\ ~vorbis.block.full
        /\ ~vorbis.queued.full
        /\ bitrate_flushpacket(vorbis).ret = 0

\* A call that drained two blocks.
C12_Witness ==
    /\ last.op = "write_samples"
    /\ last.result = "Ok"
    /\ CountEvents(last.trace, Event("blockout", 1)) = 2
    /\ vorbis.eofflag = 0

\* C13: the packets the framer has taken in are the three header packets and
\* then the audio packets in the order of their packet numbers, each once,
\* and none the codec produced is missing.
C13_PacketsPushedOnceInOrder ==
    /\ state = "Created" => pushed = <<>>
    /\ state # "Created" =>
          IF vorbis.sequence >= 3
          THEN /\ Len(pushed) = vorbis.sequence
               /\ \A i \in 1..Len(pushed) : pushed[i].no = i - 1
               /\ <<pushed[1].kind, pushed[2].kind, pushed[3].kind>> = <<"id", "comment", "code">>
          ELSE pushed = <<ZeroPacket, ZeroPacket, ZeroPacket>>
    /\ CountEvents(last.trace, Event("flushpacket", 1))
          = IF last.op \in {"write_samples", "close"}
            THEN Cardinality({i \in 1..Len(last.trace) : last.trace[i].e = "packetin"})
            ELSE 0

C13_Witness ==
    /\ last.op = "close"
    /\ last.result = "Ok"
    /\ Len(pushed) >= 6
    /\ pushed[Len(pushed)].eos

\* The page of the sink that carries page number n.
PageNo(n) == file[n + 1]

\* C14: within one write_samples or close call no page is written to the sink
\* after a page that carries the end-of-stream flag.
C14_NoPageAfterEosInCall ==
    (last.op \in {"write_samples", "close"} /\ last.result = "Ok") =>
        \A i, j \in 1..Len(last.trace) :
            (i < j /\ last.trace[i].e = "page" /\ PageNo(last.trace[i].n).eos)
                => last.trace[j].e # "page"

\* The pages a step handed to the sink.
NewPages == SubSeq(file', Len(file) + 1, Len(file'))

\* C15: with the sink refusing writes, initialize, write_samples and close
\* still return Ok, still make their lifecycle transition and still add the
\* header and body lengths of the pages they put out to the byte counter.
C15_WriteFailureDiscarded ==
    [][(~sinkOk /\ nops' = nops + 1 /\ last'.result # "fault") =>
          /\ (state = "Created" /\ last'.op \in InitOps) =>
                /\ last'.result = "Ok"
                /\ state' = "Initialized"
                /\ file_size' = file_size + PageBytes(NewPages)
          /\ (state = "Initialized" /\ last'.op = "write_samples") =>
                /\ last'.result = "Ok"
                /\ state' = "Initialized"
                /\ file_size' = file_size + PageBytes(NewPages)
          /\ (state = "Initialized" /\ last'.op = "close") =>
                /\ last'.result = "Ok"
                /\ state' = "Closed"
                /\ file_size' = file_size + PageBytes(NewPages)]_vars

\* C17: the end of input is signalled to the codec at most once, no samples
\* are committed to it afterwards, and the sink holds at most one
\* end-of-stream page, with no page after it.
C17_EndOfInputOnce ==
    /\ vorbis.eoi <= 1
    /\ (last.op = "write_samples" /\ last.result = "Ok" /\ vorbis.committed > 0)
          => vorbis.eoi = 0
    /\ \A i \in 1..Len(file) : file[i].eos => i = Len(file)

\* C18: write_samples and close get to the codec and the framer only when the
\* codec took its configuration and the framer was opened; neither ever runs
\* on zeroed codec state.
C18_OnlyOnConfiguredCodec ==
    (last.op \in {"write_samples", "close"} /\ last.from = "Initialized") =>
        /\ last.result # "fault"
        /\ vorbis.vi = "setup"
        /\ vorbis.vd = "ready"
        /\ ogg.os = "init"

\* The loops, taken one iteration at a time, leave the encoder as the call
\* taken whole leaves it.
StepsAgree == run.pc = "return" => return_step(run) = Whole(run)

\* C16: every call to initialize, write_samples and close terminates: once
\* begun, the block loop, the packet loop and the page loops of the call are
\* left after finitely many iterations and the call returns.
C16_CallsTerminate == (run.pc # "idle") ~> (run.pc = "idle")

\* a close that returned after two blocks, two packets and their pages
C16_Witness ==
    /\ run.pc = "idle"
    /\ last.op = "close"
    /\ last.result = "Ok"
    /\ CountEvents(last.trace, Event("blockout", 1)) = 2
    /\ CountEvents(last.trace, Event("flushpacket", 1)) = 2
    /\ CountEvents(last.trace, Event("blockout", 0)) = 1

====
